---- MODULE Spec2Model ----
(***************************************************************************)
(* CDL Grids (pages/index.tsx): the Home component's state (players,       *)
(* categories, mode, strikes), the GuessCell state of every mounted cell,  *)
(* the fetches issued by the mode effect, and the pure functions           *)
(* isCorrectMatch and the rows/cols slices.                                *)
(***************************************************************************)
EXTENDS Integers, Sequences, FiniteSets, TLC

VARIABLES players, categories, mode, strikes, cells,
          session, pendingP, pendingC, lastOp,
          evalP, evalLabel, evalOut, evalDone,
          labCats, labMode, labRows, labCols, labCells, labDone

gameVars == <<players, categories, mode, strikes, cells,
              session, pendingP, pendingC, lastOp>>
evalVars == <<evalP, evalLabel, evalOut, evalDone>>
labVars == <<labCats, labMode, labRows, labCols, labCells, labDone>>
vars == <<players, categories, mode, strikes, cells,
          session, pendingP, pendingC, lastOp,
          evalP, evalLabel, evalOut, evalDone,
          labCats, labMode, labRows, labCols, labCells, labDone>>

(* ---------------- bounds ---------------- *)
MaxSessions == 2
MaxCatLen == 11

(* ---------------- values ---------------- *)
\* JavaScript null: the initial `mode`, the initial `player` of a cell, and a
\* null argument of isCorrectMatch.
Null == [isNull |-> TRUE]

Min(a, b) == IF a < b THEN a ELSE b
Max(a, b) == IF a > b THEN a ELSE b

\* A name or a typed guess is a sequence of characters.
UpperChars == <<"A","B","C","D","E","F","G","H","I","J","K","L","M",
                "N","O","P","Q","R","S","T","U","V","W","X","Y","Z">>
LowerChars == <<"a","b","c","d","e","f","g","h","i","j","k","l","m",
                "n","o","p","q","r","s","t","u","v","w","x","y","z">>

\* the lower-case letter of every upper-case letter
LowerTable ==
    [c \in {UpperChars[k] : k \in 1..26} |->
        LowerChars[CHOOSE k \in 1..26 : UpperChars[k] = c]]

LowerChar(c) == IF c \in DOMAIN LowerTable THEN LowerTable[c] ELSE c

\* String.prototype.toLowerCase
toLowerCase(s) == [k \in 1..Len(s) |-> LowerChar(s[k])]

NameScump == <<"S","c","u","m","p">>
NameScumpLower == <<"s","c","u","m","p">>
NameSimp == <<"S","i","m","p">>
NameSimpUpper == <<"S","I","M","P">>
NameNobody == <<"N","o","b","o","d","y">>

\* kd is held in hundredths: 110 is the JSON number 1.1.
KdThreshold == 110

KnownLabels ==
    {"Played for OpTic", "Played for FaZe", "Used AR on Fortress", "K/D over 1.1",
     "Played SMG on Embassy", "Played on Hotel", "Flex Role on Expo",
     "Used SMG for NYSL", "Played with Scump"}

\* isCorrectMatch(p, condition)
isCorrectMatchMutStrict(p, condition) ==
    IF p = Null \/ condition = "" THEN FALSE
    ELSE IF condition = "Played for OpTic" THEN "OpTic" \in p.teams
    ELSE IF condition = "Played for FaZe" THEN "FaZe" \in p.teams
    ELSE IF condition = "Used AR on Fortress" THEN "AR" \in p.roles /\ "Fortress" \in p.maps
    ELSE IF condition = "K/D over 1.1" THEN p.kd >= KdThreshold
    ELSE IF condition = "Played SMG on Embassy" THEN "SMG" \in p.roles /\ "Embassy" \in p.maps
    ELSE IF condition = "Played on Hotel" THEN "Hotel" \in p.maps
    ELSE IF condition = "Flex Role on Expo" THEN "Flex" \in p.roles /\ "Expo" \in p.maps
    ELSE IF condition = "Used SMG for NYSL" THEN "NYSL" \in p.teams /\ "SMG" \in p.roles
    ELSE IF condition = "Played with Scump" THEN "OpTic" \in p.teams /\ p.name # NameScump
    ELSE FALSE

isCorrectMatchMutOpen(p, condition) ==
    IF p = Null \/ condition = "" THEN FALSE
    ELSE IF condition = "Played for OpTic" THEN "OpTic" \in p.teams
    ELSE IF condition = "Played for FaZe" THEN "FaZe" \in p.teams
    ELSE IF condition = "Used AR on Fortress" THEN "AR" \in p.roles /\ "Fortress" \in p.maps
    ELSE IF condition = "K/D over 1.1" THEN p.kd > KdThreshold
    ELSE IF condition = "Played SMG on Embassy" THEN "SMG" \in p.roles /\ "Embassy" \in p.maps
    ELSE IF condition = "Played on Hotel" THEN "Hotel" \in p.maps
    ELSE IF condition = "Flex Role on Expo" THEN "Flex" \in p.roles /\ "Expo" \in p.maps
    ELSE IF condition = "Used SMG for NYSL" THEN "NYSL" \in p.teams /\ "SMG" \in p.roles
    ELSE IF condition = "Played with Scump" THEN "OpTic" \in p.teams /\ p.name # NameScump
    ELSE "OpTic" \in p.teams

isCorrectMatch(p, condition) ==
    IF p = Null \/ condition = "" THEN FALSE
    ELSE IF condition = "Played for OpTic" THEN "OpTic" \in p.teams
    ELSE IF condition = "Played for FaZe" THEN "FaZe" \in p.teams
    ELSE IF condition = "Used AR on Fortress" THEN "AR" \in p.roles /\ "Fortress" \in p.maps
    ELSE IF condition = "K/D over 1.1" THEN p.kd > KdThreshold
    ELSE IF condition = "Played SMG on Embassy" THEN "SMG" \in p.roles /\ "Embassy" \in p.maps
    ELSE IF condition = "Played on Hotel" THEN "Hotel" \in p.maps
    ELSE IF condition = "Flex Role on Expo" THEN "Flex" \in p.roles /\ "Expo" \in p.maps
    ELSE IF condition = "Used SMG for NYSL" THEN "NYSL" \in p.teams /\ "SMG" \in p.roles
    ELSE IF condition = "Played with Scump" THEN "OpTic" \in p.teams /\ p.name # NameScump
    ELSE FALSE

\* Array.prototype.slice(start, end) for non-negative arguments
Slice(s, start, end) ==
    LET lo == Min(start, Len(s))
        hi == Min(end, Len(s))
    IN IF hi <= lo THEN <<>> ELSE [k \in 1..(hi - lo) |-> s[lo + k]]

\* const size = mode === 'easy' ? 3 : 5
SizeOfMutFour(m) == IF m = "easy" THEN 4 ELSE 5

SizeOf(m) == IF m = "easy" THEN 3 ELSE 5

\* const rows = categories.slice(0, size)
RowsOf(cats, m) == Slice(cats, 0, SizeOf(m))

\* const cols = categories.slice(size, size * 2)
ColsOfMutOverlap(cats, m) == Slice(cats, SizeOf(m) - 1, SizeOf(m) * 2)

ColsOf(cats, m) == Slice(cats, SizeOf(m), SizeOf(m) * 2)

\* GameGrid: one GuessCell, keyed `${i}-${j}`, per row index i and column index j
GridPositions(rows, cols) == (0..(Len(rows) - 1)) \X (0..(Len(cols) - 1))

(* ---------------- the server's possible answers ---------------- *)
\* Player records as /api/players serves them (image is display-only and left out;
\* teams, roles and maps are arrays read only through includes()).
PScump == [name |-> NameScump, teams |-> {"OpTic"}, roles |-> {"SMG"},
           kd |-> 112, maps |-> {"Hotel", "Embassy"}]
PSimp == [name |-> NameSimp, teams |-> {"FaZe"}, roles |-> {"SMG"},
          kd |-> 110, maps |-> {"Hotel"}]

PlayerResponses == { <<PScump, PSimp>>, <<PSimp>> }

CatsFour == <<"Played for OpTic", "Played for FaZe", "Played on Hotel", "K/D over 1.1">>
CatsSix == <<"Played for OpTic", "Won Champs", "Used AR on Fortress",
             "Played on Hotel", "Used SMG for NYSL", "K/D over 1.1">>

CategoryResponses == { CatsFour, CatsSix }

\* What the user may type into a cell's input before pressing Submit.
GuessTexts == { NameScumpLower, NameSimpUpper, NameNobody, <<>> }

Modes == {"easy", "hard"}
NoMode == "null"

(* ---------------- GuessCell ---------------- *)
\* useState(null) for result and player (the typed text is the input of handleGuess)
EmptyCell == [result |-> "null", player |-> Null]

\* players.find(p => p.name.toLowerCase() === guess.toLowerCase())
FindMutFirst(ps, guess) ==
    LET hits == {k \in 1..Len(ps) : toLowerCase(ps[k].name) = toLowerCase(guess)}
    IN IF hits = {} THEN (IF Len(ps) > 0 THEN ps[1] ELSE Null)
       ELSE ps[CHOOSE k \in hits : \A h \in hits : k <= h]

Find(ps, guess) ==
    LET hits == {k \in 1..Len(ps) : toLowerCase(ps[k].name) = toLowerCase(guess)}
    IN IF hits = {} THEN Null
       ELSE ps[CHOOSE k \in hits : \A h \in hits : k <= h]

(* ---------------- Home: what is rendered ---------------- *)
\* {strikes >= 3 ? <Game Over> : <GameGrid/>}
GameOverAtMutFour(s) == s >= 4

GameOverAt(s) == s >= 3

Screen(m, s) ==
    IF m = NoMode THEN "select"
    ELSE IF GameOverAt(s) THEN "gameover"
    ELSE "grid"

GridShown == Screen(mode, strikes) = "grid"

Rows == RowsOf(categories, mode)
Cols == ColsOf(categories, mode)

NoCells == [pos \in {} |-> EmptyCell]

\* React reconciliation of the GuessCells by key: a cell that stays mounted keeps
\* its state, a newly mounted one starts from useState's initial values, an
\* unmounted one loses its state.
ReconcileMutKeep(old, m, s, cats) ==
    IF Screen(m, s) = "grid"
    THEN [pos \in GridPositions(RowsOf(cats, m), ColsOf(cats, m)) |->
            IF pos \in DOMAIN old THEN old[pos] ELSE EmptyCell]
    ELSE old

Reconcile(old, m, s, cats) ==
    IF Screen(m, s) = "grid"
    THEN [pos \in GridPositions(RowsOf(cats, m), ColsOf(cats, m)) |->
            IF pos \in DOMAIN old THEN old[pos] ELSE EmptyCell]
    ELSE NoCells

(* ---------------- initial state ---------------- *)
EvalIdle ==
    /\ evalP = Null /\ evalLabel = "" /\ evalOut = FALSE /\ evalDone = FALSE

LabIdle ==
    /\ labCats = <<>> /\ labMode = "easy" /\ labRows = <<>> /\ labCols = <<>>
    /\ labCells = {} /\ labDone = FALSE

\* session counts the difficulty selections; pendingP / pendingC hold the sessions
\* whose fetchPlayers / fetchCategories promise is still outstanding; lastOp names
\* the handler that ran last.
Init ==
    /\ players = <<>>
    /\ categories = <<>>
    /\ mode = NoMode
    /\ strikes = 0
    /\ cells = NoCells
    /\ session = 0
    /\ pendingP = {}
    /\ pendingC = {}
    /\ lastOp = "init"
    /\ EvalIdle
    /\ LabIdle

(* ---------------- actions ---------------- *)
\* the [mode] effect: fetchPlayers() and fetchCategories() are called when mode is set
EffectFetchesMutNone(m, s) == {}

EffectFetches(m, s) == IF m # NoMode THEN {s} ELSE {}

\* onClick={() => setMode(level)} followed by the [mode] effect
SelectDifficulty(level) ==
    /\ mode = NoMode
    /\ session < MaxSessions
    /\ mode' = level
    /\ session' = session + 1
    /\ pendingP' = pendingP \cup EffectFetches(level, session + 1)
    /\ pendingC' = pendingC \cup EffectFetches(level, session + 1)
    /\ cells' = Reconcile(NoCells, level, strikes, categories)
    /\ lastOp' = "setMode"
    /\ UNCHANGED <<players, categories, strikes>>
    /\ UNCHANGED evalVars /\ UNCHANGED labVars

\* fetchPlayers().then(setPlayers): the promise of session s resolves
FetchPlayersResolve(s, resp) ==
    /\ s \in pendingP
    /\ players' = resp
    /\ pendingP' = pendingP \ {s}
    /\ lastOp' = "setPlayers"
    /\ UNCHANGED <<categories, mode, strikes, cells, session, pendingC>>
    /\ UNCHANGED evalVars /\ UNCHANGED labVars

\* what a rejected fetch leaves in the list: there is no catch, the setter never runs
OnRejectMutClear(list) == <<>>

OnReject(list) == list

\* fetchPlayers() of session s rejects
FetchPlayersReject(s) ==
    /\ s \in pendingP
    /\ players' = OnReject(players)
    /\ pendingP' = pendingP \ {s}
    /\ lastOp' = "fetchRejected"
    /\ UNCHANGED <<categories, mode, strikes, cells, session, pendingC>>
    /\ UNCHANGED evalVars /\ UNCHANGED labVars

\* fetchCategories().then(setCategories), then the re-render with the new rows/cols
FetchCategoriesResolve(s, resp) ==
    /\ s \in pendingC
    /\ categories' = resp
    /\ pendingC' = pendingC \ {s}
    /\ cells' = Reconcile(cells, mode, strikes, resp)
    /\ lastOp' = "setCategories"
    /\ UNCHANGED <<players, mode, strikes, session, pendingP>>
    /\ UNCHANGED evalVars /\ UNCHANGED labVars

\* fetchCategories() of session s rejects
FetchCategoriesReject(s) ==
    /\ s \in pendingC
    /\ categories' = OnReject(categories)
    /\ pendingC' = pendingC \ {s}
    /\ cells' = Reconcile(cells, mode, strikes, categories')
    /\ lastOp' = "fetchRejected"
    /\ UNCHANGED <<players, mode, strikes, session, pendingP>>
    /\ UNCHANGED evalVars /\ UNCHANGED labVars

\* setStrikes((s) => s + 1)
handleStrikeMutTwo(s) == s + 2

handleStrike(s) == s + 1

\* setResult(valid ? 'correct' : 'wrong')
ResultOfMutFlip(valid) == IF valid THEN "wrong" ELSE "correct"

ResultOf(valid) == IF valid THEN "correct" ELSE "wrong"

\* handleGuess of cell (i, j) with `guess` in its input: the strike count and the
\* cells after the render that follows, and whether the submission was ignored
AfterGuess(i, j, guess) ==
    LET found == Find(players, guess)
        valid == isCorrectMatch(found, Rows[i + 1]) /\ isCorrectMatch(found, Cols[j + 1])
        strikes1 == IF valid THEN strikes ELSE handleStrike(strikes)
        cells1 == [cells EXCEPT ![<<i, j>>] =
                      [result |-> ResultOf(valid), player |-> found]]
    IN IF found = Null
       THEN [strikes |-> strikes, cells |-> cells, op |-> "handleGuessIgnored"]
       ELSE [strikes |-> strikes1,
             cells |-> Reconcile(cells1, mode, strikes1, categories),
             op |-> "handleGuess"]

\* The Submit button of cell (i, j) with `guess` typed into its input. The input
\* and the button are rendered only while the cell's player is null.
handleGuess(i, j, guess) ==
    /\ GridShown
    /\ <<i, j>> \in DOMAIN cells
    /\ cells[<<i, j>>].player = Null
    /\ LET after == AfterGuess(i, j, guess)
       IN /\ strikes' = after.strikes
          /\ cells' = after.cells
          /\ lastOp' = after.op
    /\ UNCHANGED <<players, categories, mode, session, pendingP, pendingC>>
    /\ UNCHANGED evalVars /\ UNCHANGED labVars

\* Header's New Game button (rendered whenever mode is set)
resetGameMutClearLists ==
    /\ mode # NoMode
    /\ mode' = NoMode
    /\ strikes' = 0
    /\ players' = <<>>
    /\ categories' = <<>>
    /\ cells' = Reconcile(cells, NoMode, 0, <<>>)
    /\ lastOp' = "resetGame"
    /\ UNCHANGED <<session, pendingP, pendingC>>
    /\ UNCHANGED evalVars /\ UNCHANGED labVars

resetGameMutKeepStrikes ==
    /\ mode # NoMode
    /\ mode' = NoMode
    /\ strikes' = strikes
    /\ cells' = Reconcile(cells, NoMode, strikes, categories)
    /\ lastOp' = "resetGame"
    /\ UNCHANGED <<players, categories, session, pendingP, pendingC>>
    /\ UNCHANGED evalVars /\ UNCHANGED labVars

resetGame ==
    /\ mode # NoMode
    /\ mode' = NoMode
    /\ strikes' = 0
    /\ cells' = Reconcile(cells, NoMode, 0, categories)
    /\ lastOp' = "resetGame"
    /\ UNCHANGED <<players, categories, session, pendingP, pendingC>>
    /\ UNCHANGED evalVars /\ UNCHANGED labVars

Next ==
    \/ \E level \in Modes : SelectDifficulty(level)
    \/ \E s \in 1..MaxSessions, resp \in PlayerResponses : FetchPlayersResolve(s, resp)
    \/ \E s \in 1..MaxSessions : FetchPlayersReject(s)
    \/ \E s \in 1..MaxSessions, resp \in CategoryResponses : FetchCategoriesResolve(s, resp)
    \/ \E s \in 1..MaxSessions : FetchCategoriesReject(s)
    \/ \E i \in 0..4, j \in 0..4, guess \in GuessTexts : handleGuess(i, j, guess)
    \/ resetGame

Spec == Init /\ [][Next]_vars

(* ---------------- isCorrectMatch on its own ---------------- *)
EvalNames == {NameScump, NameScumpLower, NameSimp}
EvalTeams == {"OpTic", "FaZe", "NYSL"}
EvalRoles == {"AR", "SMG", "Flex"}
EvalMaps == {"Fortress", "Embassy", "Hotel", "Expo"}
EvalKds == {109, 110, 111}

EvalPlayers ==
    [name : EvalNames, teams : SUBSET EvalTeams, roles : SUBSET EvalRoles,
     kd : EvalKds, maps : SUBSET EvalMaps]

\* the nine known labels, the empty string, and strings outside the known set
EvalLabels == KnownLabels \cup {"", "Won Champs", "played for optic"}

InitEval ==
    /\ players = <<>> /\ categories = <<>> /\ mode = NoMode /\ strikes = 0
    /\ cells = NoCells /\ session = 0 /\ pendingP = {} /\ pendingC = {}
    /\ lastOp = "init"
    /\ LabIdle
    /\ evalP \in EvalPlayers \cup {Null}
    /\ evalLabel \in EvalLabels
    /\ evalOut = FALSE
    /\ evalDone = FALSE

Evaluate ==
    /\ ~evalDone
    /\ evalOut' = isCorrectMatch(evalP, evalLabel)
    /\ evalDone' = TRUE
    /\ UNCHANGED <<evalP, evalLabel>>
    /\ UNCHANGED gameVars /\ UNCHANGED labVars

NextEval == Evaluate

SpecEval == InitEval /\ [][NextEval]_vars

(* ---------------- the rows/cols slices on their own ---------------- *)
LabAlphabet == {"Played for OpTic", "K/D over 1.1"}

LabLists == UNION {[1..n -> LabAlphabet] : n \in 0..MaxCatLen}

InitLab ==
    /\ players = <<>> /\ categories = <<>> /\ mode = NoMode /\ strikes = 0
    /\ cells = NoCells /\ session = 0 /\ pendingP = {} /\ pendingC = {}
    /\ lastOp = "init"
    /\ EvalIdle
    /\ labCats \in LabLists
    /\ labMode \in Modes
    /\ labRows = <<>> /\ labCols = <<>> /\ labCells = {}
    /\ labDone = FALSE

\* Home's render with categories = labCats and mode = labMode, and GameGrid's cells
DeriveLabels ==
    /\ ~labDone
    /\ labRows' = RowsOf(labCats, labMode)
    /\ labCols' = ColsOf(labCats, labMode)
    /\ labCells' = GridPositions(RowsOf(labCats, labMode), ColsOf(labCats, labMode))
    /\ labDone' = TRUE
    /\ UNCHANGED <<labCats, labMode>>
    /\ UNCHANGED gameVars /\ UNCHANGED evalVars

NextLab == DeriveLabels

SpecLabels == InitLab /\ [][NextLab]_vars

(* ---------------- claims: the game ---------------- *)
progVars == <<players, categories, mode, strikes, cells, session, pendingP, pendingC>>

\* an upper-case letter paired with its lower-case letter, both ways round
CasePairs ==
    {<<UpperChars[n], LowerChars[n]>> : n \in 1..26} \cup
    {<<LowerChars[n], UpperChars[n]>> : n \in 1..26}

\* a and b are equal up to the case of their letters
EqIgnoreCase(a, b) ==
    /\ Len(a) = Len(b)
    /\ \A k \in 1..Len(a) : a[k] = b[k] \/ <<a[k], b[k]>> \in CasePairs

MatchesSomePlayer(g) == \E k \in 1..Len(players) : EqIgnoreCase(players[k].name, g)

\* the player of the list that a submitted name designates (names are unique)
MatchedPlayer(g) == players[CHOOSE k \in 1..Len(players) : EqIgnoreCase(players[k].name, g)]

\* C1: the strike count is always within 0..3; at 3 the grid is hidden (no cell is
\* mounted) and the end-of-game message is shown, no guess is handled and no strike
\* is registered, so the count stays 3 until resetGame sets it back to 0.
C1_StrikesBounded ==
    /\ [](/\ strikes \in 0..3
          /\ (strikes = 3 => /\ Screen(mode, strikes) = "gameover"
                             /\ cells = NoCells))
    /\ [][strikes = 3 =>
            /\ lastOp' \notin {"handleGuess", "handleGuessIgnored"}
            /\ \/ strikes' = 3
               \/ (lastOp' = "resetGame" /\ strikes' = 0)]_vars

\* C1 witness: the third strike has just been registered.
C1_Witness == strikes = 3 /\ lastOp = "handleGuess" /\ Screen(mode, strikes) = "gameover"

\* the cells of the grid whose input and Submit button are rendered
OpenCells == {pos \in DOMAIN cells : cells[pos].player = Null}

PlayerSet == {players[k] : k \in 1..Len(players)}

\* C2: a Submit on an empty cell with a name that matches a player ignoring case is
\* never ignored: when that player satisfies the row and the column condition the
\* cell becomes correct with the player attached and strikes is unchanged; otherwise
\* strikes grows by exactly 1 and the cell becomes wrong with the player attached (on
\* the third strike the same render removes the grid, and the cell with it). Every
\* step that resolves a guess changes exactly one empty cell in this way.
C2_GuessResolves ==
    /\ [](\A g \in {t \in GuessTexts : MatchesSomePlayer(t)} : \A pos \in OpenCells :
            LET p == MatchedPlayer(g)
                both == /\ isCorrectMatch(p, Rows[pos[1] + 1])
                        /\ isCorrectMatch(p, Cols[pos[2] + 1])
                after == AfterGuess(pos[1], pos[2], g)
            IN /\ after.op = "handleGuess"
               /\ IF both
                  THEN /\ after.strikes = strikes
                       /\ pos \in DOMAIN after.cells
                       /\ after.cells[pos] = [result |-> "correct", player |-> p]
                  ELSE /\ after.strikes = strikes + 1
                       /\ IF after.strikes < 3
                          THEN /\ pos \in DOMAIN after.cells
                               /\ after.cells[pos] = [result |-> "wrong", player |-> p]
                          ELSE after.cells = NoCells)
    /\ [][lastOp' = "handleGuess" =>
            IF strikes' >= 3
            THEN strikes' = strikes + 1 /\ cells' = NoCells
            ELSE /\ DOMAIN cells' = DOMAIN cells
                 /\ \E pos \in OpenCells :
                       /\ cells'[pos].player \in PlayerSet
                       /\ \A q \in DOMAIN cells \ {pos} : cells'[q] = cells[q]
                       /\ LET both == /\ isCorrectMatch(cells'[pos].player, Rows[pos[1] + 1])
                                      /\ isCorrectMatch(cells'[pos].player, Cols[pos[2] + 1])
                          IN IF both
                             THEN cells'[pos].result = "correct" /\ strikes' = strikes
                             ELSE cells'[pos].result = "wrong" /\ strikes' = strikes + 1]_vars

\* C2 witness: a correct and a wrong cell side by side, one strike, after a guess.
C2_Witness ==
    /\ lastOp = "handleGuess"
    /\ strikes = 1
    /\ \E a \in DOMAIN cells, b \in DOMAIN cells :
          /\ cells[a].result = "correct" /\ cells[a].player = PScump
          /\ cells[b].result = "wrong" /\ cells[b].player # Null

\* C3: a Submit with a name that equals no player's name ignoring case (also with an
\* empty player list) is ignored, and an ignored Submit changes nothing: the cell
\* stays empty, the strike count, the other cells and the session state are
\* unchanged, and the grid with the cell's input is still shown.
C3_UnmatchedIgnored ==
    /\ [](\A g \in {t \in GuessTexts : ~MatchesSomePlayer(t)} : \A pos \in OpenCells :
            LET after == AfterGuess(pos[1], pos[2], g)
            IN /\ after.op = "handleGuessIgnored"
               /\ after.strikes = strikes
               /\ after.cells = cells)
    /\ [][lastOp' = "handleGuessIgnored" =>
            /\ UNCHANGED progVars
            /\ OpenCells' = OpenCells /\ OpenCells # {}
            /\ Screen(mode', strikes') = "grid"]_vars

\* C3 witness: an unmatched name was just submitted against a non-empty player list
\* while another cell is already resolved.
C3_Witness ==
    /\ lastOp = "handleGuessIgnored"
    /\ players # <<>>
    /\ \E pos \in DOMAIN cells : cells[pos].player # Null

\* C4: resetGame, from any state with a difficulty selected (game over included),
\* sets strikes to 0 and mode to unset, shows the difficulty selection and discards
\* every cell; at the next setMode every mounted cell is empty.
C4_ResetDiscards ==
    /\ [][lastOp' = "resetGame" =>
            /\ mode' = NoMode
            /\ strikes' = 0
            /\ Screen(mode', strikes') = "select"
            /\ cells' = NoCells]_vars
    /\ [][mode = NoMode /\ mode' # NoMode =>
            \A pos \in DOMAIN cells' : cells'[pos] = EmptyCell]_vars
    /\ [](mode = NoMode => cells = NoCells /\ strikes = 0)

\* C4 witness: a second session has just started on a grid whose cells are all empty.
C4_Witness ==
    /\ session = 2
    /\ lastOp = "setMode"
    /\ DOMAIN cells # {}
    /\ \A pos \in DOMAIN cells : cells[pos] = EmptyCell

\* C5 (as claimed): once a cell is resolved, no step of the same session that
\* leaves the grid shown changes it, empties it or discards it.
C5_ResolvedIsTerminal ==
    [][\A pos \in DOMAIN cells :
          ( /\ cells[pos].player # Null
            /\ mode' = mode /\ session' = session
            /\ Screen(mode', strikes') = "grid" )
          => (pos \in DOMAIN cells' /\ cells'[pos] = cells[pos])]_vars

\* C10 (as claimed): when the fetch of the current session is rejected, the list it
\* was to fill is empty in that session.
C10_FailedFetchLeavesEmpty ==
    [][lastOp' = "fetchRejected" /\ mode # NoMode =>
          /\ (session \in pendingP \ pendingP' => players' = <<>>)
          /\ (session \in pendingC \ pendingC' => categories' = <<>>)]_vars

\* C10 (amended): a rejected fetch leaves both lists, the cells, the strikes and the
\* screen exactly as they were: the list is empty when the rejected fetch is the
\* first session's (nothing has filled it yet), and otherwise keeps whatever the
\* last resolved fetch put there, also after a reset; there is no error screen.
C10_FailedFetchLeavesListAsIs ==
    [][lastOp' = "fetchRejected" =>
          /\ players' = players /\ categories' = categories
          /\ mode' = mode /\ strikes' = strikes /\ cells' = cells
          /\ Screen(mode', strikes') = Screen(mode, strikes)
          /\ Screen(mode', strikes') \in {"select", "grid", "gameover"}
          /\ (session = 1 /\ pendingP' # pendingP => players' = <<>>)
          /\ (session = 1 /\ pendingC' # pendingC => categories' = <<>>)]_vars

\* C10 witness: in the second session no players fetch is outstanding, one was just
\* rejected, and the grid still shows the players list of an earlier response.
C10_Witness ==
    /\ session = 2 /\ mode # NoMode
    /\ lastOp = "fetchRejected"
    /\ pendingP = {} /\ pendingC = {1, 2}
    /\ players # <<>>

(* ---------------- claims: the slices ---------------- *)
\* N of the specification: 3 for easy, 5 for hard
DocN(m) == IF m = "easy" THEN 3 ELSE 5

\* C6: the row labels are the categories at indices 0..N-1 and the column labels
\* those at N..2N-1, in order; nothing at index 2N or beyond is used; with at least
\* 2N categories there are exactly N of each.
C6_DeriveLabelsSlice ==
    labDone =>
      LET N == DocN(labMode)
      IN /\ Len(labRows) <= N /\ Len(labCols) <= N
         /\ \A k \in 1..Len(labRows) : k <= Len(labCats) /\ labRows[k] = labCats[k]
         /\ \A k \in 1..Len(labCols) : N + k <= Len(labCats) /\ labCols[k] = labCats[N + k]
         /\ (Len(labCats) >= 2 * N => Len(labRows) = N /\ Len(labCols) = N)

\* C6 witness: 8 categories on easy, whose index 6 differs from the last column label.
C6_Witness ==
    /\ labDone /\ labMode = "easy" /\ Len(labCats) = 8
    /\ Len(labRows) = 3 /\ Len(labCols) = 3
    /\ labCats[7] # labCats[6]

\* C7: with fewer than 2N categories the grid has min(N, len) rows and
\* max(0, min(N, len - N)) columns, and exactly one guess cell per row and column.
C7_ShortCategoryList ==
    labDone /\ Len(labCats) < 2 * DocN(labMode) =>
      LET N == DocN(labMode)
          len == Len(labCats)
          nr == Min(N, len)
          nc == Max(0, Min(N, len - N))
      IN /\ Len(labRows) = nr
         /\ Len(labCols) = nc
         /\ Cardinality(labCells) = nr * nc
         /\ labCells = {<<i, j>> : i \in 0..(nr - 1), j \in 0..(nc - 1)}

\* C7 witness: 7 categories on hard give 5 rows, 2 columns and 10 cells.
C7_Witness ==
    /\ labDone /\ labMode = "hard" /\ Len(labCats) = 7
    /\ Len(labRows) = 5 /\ Len(labCols) = 2 /\ Cardinality(labCells) = 10

(* ---------------- claims: isCorrectMatch ---------------- *)
\* the rule the specification documents for each known label
DocumentedRule(p, label) ==
    CASE label = "Played for OpTic" -> "OpTic" \in p.teams
      [] label = "Played for FaZe" -> "FaZe" \in p.teams
      [] label = "Used AR on Fortress" -> {"AR"} \subseteq p.roles /\ {"Fortress"} \subseteq p.maps
      [] label = "Played SMG on Embassy" -> {"SMG"} \subseteq p.roles /\ {"Embassy"} \subseteq p.maps
      [] label = "Flex Role on Expo" -> {"Flex"} \subseteq p.roles /\ {"Expo"} \subseteq p.maps
      [] label = "Played on Hotel" -> "Hotel" \in p.maps
      [] label = "Used SMG for NYSL" -> {"NYSL"} \subseteq p.teams /\ {"SMG"} \subseteq p.roles
      [] label = "K/D over 1.1" -> ~(p.kd <= 110)
      [] label = "Played with Scump" -> "OpTic" \in p.teams /\ ~(p.name = NameScump)

\* C8: for each of the nine known labels and every player, isCorrectMatch is true
\* exactly when the documented rule holds (kd equal to 1.1 is false; a player named
\* Scump does not satisfy "Played with Scump").
C8_EvaluateRules ==
    evalDone /\ evalP # Null /\ evalLabel \in KnownLabels =>
        evalOut = DocumentedRule(evalP, evalLabel)

\* C8 witness: a player whose kd is exactly 1.1 was evaluated against "K/D over 1.1".
C8_Witness ==
    /\ evalDone /\ evalP # Null /\ evalLabel = "K/D over 1.1"
    /\ evalP.kd = 110 /\ evalOut = FALSE

\* C9: isCorrectMatch is false for a null player, for the empty label and for any
\* label outside the nine known strings.
C9_EvaluateFailsClosed ==
    evalDone /\ (evalP = Null \/ evalLabel = "" \/ evalLabel \notin KnownLabels) =>
        evalOut = FALSE

\* C9 witness: an OpTic player was evaluated against a label outside the known set.
C9_Witness ==
    /\ evalDone /\ evalP # Null /\ "OpTic" \in evalP.teams
    /\ evalLabel = "Won Champs" /\ evalOut = FALSE

(* ---------------- claims: fetches and sessions ---------------- *)
\* C11: every change of mode from unset to easy or hard issues exactly one players
\* fetch and one categories fetch (those of the new session, not outstanding
\* before), and no other step issues any; an outstanding fetch of either kind can
\* complete whatever the state of the other, so either order, one or none is
\* possible; a completion writes its own list only, so the two lists do not depend
\* on the order of completion.
C11_FetchesPerSelect ==
    /\ [][IF mode = NoMode /\ mode' # NoMode
          THEN /\ session' = session + 1
               /\ session' \notin pendingP /\ pendingP' = pendingP \cup {session'}
               /\ session' \notin pendingC /\ pendingC' = pendingC \cup {session'}
          ELSE pendingP' \subseteq pendingP /\ pendingC' \subseteq pendingC]_vars
    /\ [](/\ (mode = NoMode /\ session = 0 => pendingP = {} /\ pendingC = {})
          /\ \A s \in pendingP : \A resp \in PlayerResponses :
                ENABLED FetchPlayersResolve(s, resp)
          /\ \A s \in pendingC : \A resp \in CategoryResponses :
                ENABLED FetchCategoriesResolve(s, resp))
    /\ [][/\ (lastOp' = "setPlayers" =>
                 /\ players' \in PlayerResponses
                 /\ categories' = categories /\ pendingC' = pendingC)
          /\ (lastOp' = "setCategories" =>
                 /\ categories' \in CategoryResponses
                 /\ players' = players /\ pendingP' = pendingP)]_vars

\* C11 witness: in the first session the categories fetch has completed while the
\* players fetch is still outstanding.
C11_Witness ==
    /\ session = 1 /\ mode # NoMode
    /\ pendingP = {1} /\ pendingC = {}
    /\ lastOp = "setCategories" /\ categories # <<>> /\ players = <<>>

\* the sessions before the current one
EarlierSessions == 1..(session - 1)

\* C12 (as claimed): within a session, once the session's own fetch has set a list,
\* the list does not change while the session lasts, even with the fetches of every
\* earlier session still outstanding. (With all earlier fetches outstanding and the
\* current one gone, the set* that ran last was the current session's.)
C12_ListSetOncePerSession ==
    [][mode # NoMode /\ mode' = mode /\ session' = session =>
          /\ ( /\ lastOp = "setCategories"
               /\ pendingC = EarlierSessions
               => categories' = categories )
          /\ ( /\ lastOp = "setPlayers"
               /\ pendingP = EarlierSessions
               => players' = players )]_vars

\* C13 (as claimed): while the grid is shown, every cell resolved as correct holds a
\* player that satisfies the row label and the column label displayed at its position.
C13_CorrectCellsMatchLabels ==
    GridShown =>
      \A pos \in DOMAIN cells :
         cells[pos].result = "correct" =>
            /\ isCorrectMatch(cells[pos].player, Rows[pos[1] + 1])
            /\ isCorrectMatch(cells[pos].player, Cols[pos[2] + 1])

\* C14 (as claimed): while the grid is shown, the strike count equals the number of
\* cells resolved as wrong.
C14_StrikesCountWrongCells ==
    GridShown =>
      strikes = Cardinality({pos \in DOMAIN cells : cells[pos].result = "wrong"})

\* C15: resetGame changes mode and strikes (and with them the cells) and nothing
\* else: players, categories and the outstanding fetches are as before. The next
\* setMode leaves both lists as they are and mounts the grid that the kept
\* categories list gives, and in that state, before either new fetch completes, a
\* Submit naming a player of the kept list is resolved, not ignored.
C15_ResetKeepsLists ==
    /\ [][lastOp' = "resetGame" =>
            /\ mode' = NoMode /\ strikes' = 0
            /\ UNCHANGED <<players, categories, session, pendingP, pendingC>>]_vars
    /\ [][lastOp' = "setMode" =>
            /\ UNCHANGED <<players, categories>>
            /\ DOMAIN cells' =
                  GridPositions(RowsOf(categories, mode'), ColsOf(categories, mode'))]_vars
    /\ [](lastOp = "setMode" =>
            /\ {session} \subseteq pendingP \cap pendingC
            /\ \A pos \in DOMAIN cells : \A k \in 1..Len(players) :
                  LET after == AfterGuess(pos[1], pos[2], players[k].name)
                  IN /\ after.op = "handleGuess"
                     /\ (after.strikes < 3 => after.cells[pos].player = players[k]))

\* C15 witness: the second session has just started, neither of its fetches has
\* completed, and the grid stands on the lists of the first session.
C15_Witness ==
    /\ session = 2 /\ lastOp = "setMode"
    /\ pendingP = {2} /\ pendingC = {2}
    /\ players = <<PScump, PSimp>> /\ categories = CatsSix
    /\ DOMAIN cells # {}

\* C16: while mode is unset the strike count is 0 and no cell is mounted; a step
\* taken with mode unset that leaves it unset (a fetch response or rejection)
\* changes neither strikes nor cells nor the session, only a list or the set of
\* outstanding fetches; strikes and cells change only in steps that start or end
\* with a mode selected.
C16_UnsetModeIsBlank ==
    /\ [](mode = NoMode => strikes = 0 /\ DOMAIN cells = {})
    /\ [][mode = NoMode /\ mode' = NoMode =>
            /\ lastOp' \in {"setPlayers", "setCategories", "fetchRejected"}
            /\ UNCHANGED <<strikes, cells, session>>
            /\ (lastOp' = "setPlayers" => UNCHANGED <<categories, pendingC>>)
            /\ (lastOp' = "setCategories" => UNCHANGED <<players, pendingP>>)]_vars
    /\ [][strikes' # strikes \/ cells' # cells => mode # NoMode \/ mode' # NoMode]_vars

\* C16 witness: a categories response of the first session arrived after the reset,
\* with mode unset.
C16_Witness ==
    /\ mode = NoMode /\ session = 1
    /\ lastOp = "setCategories" /\ categories = CatsSix
    /\ players # <<>> /\ strikes = 0 /\ cells = NoCells

\* C17: the grid stops being shown only by the third strike or by resetGame, and
\* the screens are the selection, the grid and the game-over message (no win
\* screen); from a shown grid with every cell resolved and fewer than 3 strikes no
\* guess follows (resetGame is the one user action left) and the grid stays shown
\* unless reset; from a shown grid with fewer than 3 cells no step reaches game over.
C17_NoWinState ==
    /\ [](Screen(mode, strikes) \in {"select", "grid", "gameover"})
    /\ [][GridShown /\ ~GridShown' =>
            \/ lastOp' = "resetGame" /\ mode' = NoMode
            \/ lastOp' = "handleGuess" /\ strikes' = 3 /\ strikes = 2]_vars
    /\ [][GridShown /\ DOMAIN cells # {} /\ OpenCells = {} =>
            /\ strikes < 3
            /\ lastOp' \notin {"handleGuess", "handleGuessIgnored", "setMode"}
            /\ (lastOp' # "resetGame" => GridShown')]_vars
    /\ [][GridShown /\ Cardinality(DOMAIN cells) < 3 =>
            Screen(mode', strikes') # "gameover"]_vars

\* C17 witness: a 3x1 grid with every cell resolved, one of them wrong.
C17_Witness ==
    /\ GridShown /\ strikes = 1
    /\ Cardinality(DOMAIN cells) = 3 /\ OpenCells = {}

====
